---- MODULE Spec2Model ----
(***************************************************************************)
(* The URL scanner's data engine: normalizeResult / normalizeScanResponse   *)
(* and the history store (src/n8nClient.js), decideVerdict                  *)
(* (src/unnamed/part_002), parseVTResult (src/unnamed/part_001) and the     *)
(* WHOIS utilities (src/whoisUtils.js), driven the way the UrlScanner       *)
(* component (src/unnamed/part_003) drives them.                            *)
(*                                                                         *)
(* JavaScript values are tagged records: [t |-> tag] or [t |-> tag, v |-> x]*)
(* with tag one of undefined, null, boolean, number, string, array, object. *)
(* An object's v is a function from its own property names to values, an    *)
(* array's v is a sequence.  A TypeError thrown by an evaluation is the     *)
(* value TypeError.                                                         *)
(***************************************************************************)
EXTENDS Integers, Sequences, FiniteSets, TLC

VARIABLES raw, normalized, result, again, error, pc,
          now,      \* the system clock, in half days since the epoch
          readAt,   \* the clock readings the evaluations so far were given
          storage,  \* localStorage[STORAGE_KEY]: Null when absent, else the
                    \* value its JSON text denotes
          saved,    \* what the last saveHistory call returned
          loading,  \* the component's loading state
          history,  \* the component's history state
          url       \* the component's url state

vars == <<raw, normalized, result, again, error, pc, now, readAt, storage, saved,
          loading, history, url>>

(***************************************************************************)
(* Bounds of the checked input space.                                       *)
(***************************************************************************)
MaxCats == 2

MaxDetections == 10

MaxMalicious == 10

\* the first clock reading: 2025-01-01T00:00Z in half days since the epoch
ClockStart == 40178

\* how far the clock advances
MaxTicks == 2

\* how many scans are recorded in the history state
MaxScans == 2

(***************************************************************************)
(* JavaScript values and the language operations the code relies on.        *)
(***************************************************************************)
Undef == [t |-> "undefined"]

Null == [t |-> "null"]

Num(n) == [t |-> "number", v |-> n]

Str(s) == [t |-> "string", v |-> s]

Arr(s) == [t |-> "array", v |-> s]

Obj(f) == [t |-> "object", v |-> f]

TypeError == [t |-> "throw"]

Bool(b) == [t |-> "boolean", v |-> b]

\* a number with one decimal place, held as its count of tenths
Tenths(n) == [t |-> "number", tenths |-> n]

\* Array.isArray(x)
IsArray(x) == x.t = "array"

\* x is null or undefined: reading a property of it throws a TypeError
IsNullish(x) == x.t \in {"null", "undefined"}

\* ToBoolean(x), as applied by !x, x || y, x ? a : b
Truthy(x) ==
  CASE x.t = "undefined" -> FALSE
    [] x.t = "null" -> FALSE
    [] x.t = "number" -> x.v # 0
    [] x.t = "string" -> x.v # ""
    [] x.t = "boolean" -> x.v
    [] OTHER -> TRUE

\* a || b
Or(a, b) == IF Truthy(a) THEN a ELSE b

\* typeof x === 'object' (true of null, arrays and plain objects)
TypeofObject(x) == x.t \in {"null", "array", "object"}

\* The own enumerable properties of x as the spread {...x} copies them:
\* an object's properties, an array's elements under their index keys,
\* nothing for null, undefined and numbers.  (Non-empty strings spread to
\* their characters; they do not occur where the inputs are spread.)
OwnProps(x) ==
  CASE x.t = "object" -> x.v
    [] x.t = "array" ->
         [k \in {ToString(i - 1) : i \in 1..Len(x.v)} |->
            x.v[CHOOSE i \in 1..Len(x.v) : ToString(i - 1) = k]]
    [] OTHER -> <<>>

\* x.k for a non-nullish x: the own property, else undefined
Get(x, k) == IF k \in DOMAIN OwnProps(x) THEN OwnProps(x)[k] ELSE Undef

\* x?.k
OptGet(x, k) == IF IsNullish(x) THEN Undef ELSE Get(x, k)

\* {...x, k: val}
With(x, k, val) ==
  Obj([p \in (DOMAIN OwnProps(x)) \cup {k} |->
         IF p = k THEN val ELSE OwnProps(x)[p]])

\* x.k !== undefined
Defined(x, k) == Get(x, k).t # "undefined"

RECURSIVE JsToString(_)
\* String(x), as a template literal `${x}` and a property key [x] take it:
\* a sequence joins its elements with commas, null and undefined elements
\* as nothing
JsToString(x) ==
  CASE x.t = "string" -> x.v
    [] x.t = "number" -> ToString(x.v)
    [] x.t = "boolean" -> IF x.v THEN "true" ELSE "false"
    [] x.t = "object" -> "[object Object]"
    [] x.t = "array" ->
         IF Len(x.v) = 0 THEN ""
         ELSE (IF IsNullish(Head(x.v)) THEN "" ELSE JsToString(Head(x.v)))
              \o (IF Len(x.v) = 1 THEN ""
                  ELSE "," \o JsToString(Arr(Tail(x.v))))
    [] OTHER -> x.t

(***************************************************************************)
(* normalizeResult (src/n8nClient.js:19-43)                                 *)
(***************************************************************************)
faviconUrl(r) ==
  Or(Get(r, "favicon_url"),
  Or(Get(r, "favicon"),
  Or(Get(r, "faviconUrl"),
  Or(Get(r, "favicon_image_url"),
  Or(OptGet(OptGet(Get(r, "favicons"), "0"), "url"), Null)))))

faviconBase64(r) ==
  Or(Get(r, "favicon_base64"),
  Or(Get(r, "faviconBase64"),
  Or(Get(r, "favicon_data"),
  Or(Get(r, "faviconData"), Null))))

screenshotBase64(r) ==
  Or(OptGet(Get(r, "screenshot"), "screenshot_base64"),
  Or(Get(r, "screenshot_base64"),
  Or(Get(r, "screenshotBase64"), Null)))

screenshotUrl(r) ==
  Or(OptGet(Get(r, "screenshot"), "image_url"),
  Or(Get(r, "screenshot_url"),
  Or(Get(r, "screenshotUrl"), Null)))

\* `data:image/png;base64,${b}`
DataRef(b) == Str("data:image/png;base64," \o JsToString(b))

favicon_src(r) ==
  IF Truthy(faviconUrl(r)) THEN faviconUrl(r)
  ELSE IF Truthy(faviconBase64(r)) THEN DataRef(faviconBase64(r)) ELSE Null

screenshot_src(r) ==
  IF Truthy(screenshotUrl(r)) THEN screenshotUrl(r)
  ELSE IF Truthy(screenshotBase64(r)) THEN DataRef(screenshotBase64(r)) ELSE Null

normalizeResult(r) ==
  IF ~Truthy(r) \/ ~TypeofObject(r) THEN r
  ELSE With(With(With(With(r,
         "favicon_url", Or(faviconUrl(r), Null)),
         "favicon_base64", Or(faviconBase64(r), Null)),
         "favicon_src", favicon_src(r)),
         "screenshot_src", screenshot_src(r))

\* xs.map(normalizeResult)
MapResults(xs) == Arr([i \in 1..Len(xs.v) |-> normalizeResult(xs.v[i])])

(***************************************************************************)
(* normalizeScanResponse (src/n8nClient.js:45-96)                           *)
(***************************************************************************)
\* cat => ({ ...cat, results: Array.isArray(cat.results)
\*             ? cat.results.map(normalizeResult) : cat.results })
\* for a non-nullish cat
mapCategory(cat) ==
  With(cat, "results",
       IF IsArray(Get(cat, "results")) THEN MapResults(Get(cat, "results"))
       ELSE Get(cat, "results"))

\* xs.map(cat => ...): reading cat.results of a null or undefined element
\* throws, and the exception leaves normalizeScanResponse
MapCategories(xs) ==
  IF \E i \in 1..Len(xs.v) : IsNullish(xs.v[i]) THEN TypeError
  ELSE Arr([i \in 1..Len(xs.v) |-> mapCategory(xs.v[i])])

\* Array.isArray(raw.results) && raw.results.length > 0, the part of the
\* third test that is evaluated before raw.results[0].verdict is read
hasFirstResult(rw) ==
  IsArray(Get(rw, "results")) /\ Len(Get(rw, "results").v) > 0

\* ... && raw.results[0].verdict
resultsAreCategories(rw) ==
  hasFirstResult(rw) /\ Truthy(Get(Get(rw, "results").v[1], "verdict"))

\* raw.verdict || raw.risk_score || Array.isArray(raw.results)
looksLikeCategory(rw) ==
  Truthy(Get(rw, "verdict")) \/ Truthy(Get(rw, "risk_score"))
    \/ IsArray(Get(rw, "results"))

\* raw.input_url || raw.domain || raw.ip
looksLikeResult(rw) ==
  Truthy(Get(rw, "input_url")) \/ Truthy(Get(rw, "domain"))
    \/ Truthy(Get(rw, "ip"))

\* the single category built from a category-like payload (lines 61-74)
categoryOf(rw) ==
  Obj([verdict |-> Or(Get(rw, "verdict"), Str("UNKNOWN")),
       risk_score |-> Or(Get(rw, "risk_score"), Num(0)),
       confidence |-> Or(Get(rw, "confidence"), Str("N/A")),
       malicious_count |-> Or(Get(rw, "malicious_count"), Num(0)),
       total_engines |-> Or(Get(rw, "total_engines"), Num(0)),
       detections |-> IF IsArray(Get(rw, "detections"))
                      THEN Get(rw, "detections") ELSE Arr(<<>>),
       results |-> IF IsArray(Get(rw, "results"))
                   THEN MapResults(Get(rw, "results"))
                   ELSE IF IsArray(Get(rw, "items"))
                        THEN MapResults(Get(rw, "items")) ELSE Arr(<<>>),
       count |-> Or(Get(rw, "count"),
                    IF IsArray(Get(rw, "results"))
                    THEN Num(Len(Get(rw, "results").v)) ELSE Num(1)),
       _raw |-> rw])

\* the single category wrapped around a result-like payload (lines 79-91)
wrapResult(rw) ==
  Obj([verdict |-> Str("UNKNOWN"),
       risk_score |-> Num(0),
       confidence |-> Str("N/A"),
       malicious_count |-> Num(0),
       total_engines |-> Num(0),
       detections |-> Arr(<<>>),
       results |-> Arr(<<normalizeResult(rw)>>),
       count |-> Num(1),
       _raw |-> rw])

normalizeScanResponse(rw) ==
  IF IsArray(rw) THEN MapCategories(rw)
  ELSE IF ~Truthy(rw) \/ ~TypeofObject(rw) THEN Arr(<<>>)
  ELSE IF IsArray(Get(rw, "categories"))
       THEN MapCategories(Get(rw, "categories"))
  ELSE IF hasFirstResult(rw) /\ IsNullish(Get(rw, "results").v[1])
       THEN TypeError
  ELSE IF resultsAreCategories(rw) THEN MapCategories(Get(rw, "results"))
  ELSE IF looksLikeCategory(rw) THEN Arr(<<categoryOf(rw)>>)
  ELSE IF looksLikeResult(rw) THEN Arr(<<wrapResult(rw)>>)
  ELSE Arr(<<>>)

(***************************************************************************)
(* decideVerdict (src/unnamed/part_002:5-75)                                *)
(***************************************************************************)
RECURSIVE countRisky(_)
\* the forEach of lines 18-23 over a sequence of results: one increment
\* per result with result.risk_score && result.risk_score > 50
countRisky(rs) ==
  IF rs = <<>> THEN 0
  ELSE (IF Truthy(Get(Head(rs), "risk_score"))
           /\ Get(Head(rs), "risk_score").v > 50 THEN 1 ELSE 0)
       + countRisky(Tail(rs))

\* maliciousCount after lines 13-31
countedMalicious(category) ==
  (IF IsArray(Get(category, "results"))
   THEN countRisky(Get(category, "results").v) ELSE 0)
  + (IF IsArray(Get(category, "detections"))
     THEN Len(Get(category, "detections").v) ELSE 0)

\* totalEngines after lines 14-31: Math.max(0, 70) when detections is a
\* non-empty array
countedEngines(category) ==
  IF IsArray(Get(category, "detections"))
     /\ Len(Get(category, "detections").v) > 0 THEN 70 ELSE 0

\* maliciousCount that adds the explicit count to the counted one
maliciousCount_Added(category) ==
  IF Defined(category, "malicious_count")
  THEN Get(category, "malicious_count").v + countedMalicious(category)
  ELSE countedMalicious(category)

\* maliciousCount after lines 34-36
maliciousCount(category) ==
  IF Defined(category, "malicious_count")
  THEN Get(category, "malicious_count").v ELSE countedMalicious(category)

\* totalEngines after lines 37-39
totalEngines(category) ==
  IF Defined(category, "total_engines")
  THEN Get(category, "total_engines").v ELSE countedEngines(category)

\* Math.round((m / t) * 100) for m >= 0, t > 0: halves round up (for every
\* pair the inputs produce the double-precision product rounds the same way)
RoundPercent(m, t) == (200 * m + t) \div (2 * t)

\* riskScore that prefers the risk_score the category came with
riskScore_Preexisting(category) ==
  IF Truthy(Get(category, "risk_score"))
  THEN Get(category, "risk_score").v
  ELSE IF totalEngines(category) > 0
       THEN RoundPercent(maliciousCount(category), totalEngines(category))
       ELSE 0

\* riskScore after lines 42-46
riskScore(category) ==
  IF totalEngines(category) > 0
  THEN RoundPercent(maliciousCount(category), totalEngines(category))
  ELSE IF Truthy(Get(category, "risk_score"))
       THEN Get(category, "risk_score").v ELSE 0

\* classify with the thresholds taken as strict
classify_Strict(score, malicious) ==
  IF score > 70 \/ malicious > 10 THEN "MALICIOUS"
  ELSE IF score > 40 \/ malicious > 3 THEN "SUSPICIOUS"
  ELSE "CLEAN"

\* lines 49-55
classify(score, malicious) ==
  IF score >= 70 \/ malicious >= 10 THEN "MALICIOUS"
  ELSE IF score >= 40 \/ malicious >= 3 THEN "SUSPICIOUS"
  ELSE "CLEAN"

\* verdictRank[v] || 0 (line 59-61): v is looked up under its string form
verdictRank(v) ==
  CASE JsToString(v) = "MALICIOUS" -> 3
    [] JsToString(v) = "SUSPICIOUS" -> 2
    [] JsToString(v) = "CLEAN" -> 1
    [] OTHER -> 0

\* mergeVerdict that always takes the computed verdict
mergeVerdict_Computed(category, verdict) == Str(verdict)

\* lines 58-65: the verdict kept after comparing with category.verdict
mergeVerdict(category, verdict) ==
  IF Truthy(Get(category, "verdict"))
     /\ verdictRank(Get(category, "verdict")) > verdictRank(Str(verdict))
  THEN Get(category, "verdict") ELSE Str(verdict)

\* outRiskScore that always takes the recomputed score
outRiskScore_Recomputed(category, score) == Num(score)

\* line 70
outRiskScore(category, score) ==
  IF Defined(category, "risk_score") THEN Get(category, "risk_score")
  ELSE Num(score)

\* outTotalEngines without the || 1
outTotalEngines_Raw(engines) == Num(engines)

\* line 72: totalEngines || 1
outTotalEngines(engines) == IF engines # 0 THEN Num(engines) ELSE Num(1)

\* decideCategory that builds the four fields without spreading category
decideCategory_NoSpread(category) ==
  Obj([verdict |-> mergeVerdict(category,
                     classify(riskScore(category), maliciousCount(category))),
       risk_score |-> outRiskScore(category, riskScore(category)),
       malicious_count |-> Num(maliciousCount(category)),
       total_engines |-> outTotalEngines(totalEngines(category))])

\* the object returned for one category (lines 67-73)
decideCategory(category) ==
  With(With(With(With(category,
    "verdict", mergeVerdict(category,
                 classify(riskScore(category), maliciousCount(category)))),
    "risk_score", outRiskScore(category, riskScore(category))),
    "malicious_count", Num(maliciousCount(category))),
    "total_engines", outTotalEngines(totalEngines(category)))

\* reading category.results of a nullish category, or result.risk_score of
\* a nullish result, throws
categoryThrows(category) ==
  \/ IsNullish(category)
  \/ /\ IsArray(Get(category, "results"))
     /\ \E i \in 1..Len(Get(category, "results").v) :
          IsNullish(Get(category, "results").v[i])

decideVerdict(nz) ==
  IF ~IsArray(nz) THEN nz
  ELSE IF \E i \in 1..Len(nz.v) : categoryThrows(nz.v[i]) THEN TypeError
  ELSE Arr([i \in 1..Len(nz.v) |-> decideCategory(nz.v[i])])

(***************************************************************************)
(* Inputs: the payloads fetchScan can hand to the pipeline and the          *)
(* categories decideVerdict is applied to.                                  *)
(***************************************************************************)
\* a property the payload does not carry
Absent == [t |-> "absent"]

\* the object literal with the properties of f that are not Absent
MkObj(f) == Obj([k \in {x \in DOMAIN f : f[x].t # "absent"} |-> f[k]])

\* one detection of SAMPLE_RESPONSE
Detection ==
  Obj([engine |-> Str("AV-Test"), result |-> Str("suspicious"),
       threat_type |-> Str("phishing")])

\* a detections array of n detections
Detections(n) == Arr([i \in 1..n |-> Detection])

\* the scan result of SAMPLE_RESPONSE (its opaque sub-objects abridged)
SampleResult ==
  Obj([input_url |-> Str("https://example-bad.com"),
       domain |-> Str("example-bad.com"),
       ip |-> Str("198.51.100.42"),
       whois |-> Obj([registrar |-> Str("BadRegistrar")]),
       favicon_url |-> Null,
       screenshot |-> Obj([image_url |-> Null])])

\* a scan result that carries its own risk_score above 50 and image aliases
RiskyResult ==
  Obj([domain |-> Str("bad.test"),
       risk_score |-> Num(80),
       favicon_base64 |-> Str("QUJD"),
       screenshot_url |-> Str("http://img.test/s.png")])

\* a scan result with a low risk_score
CalmResult == Obj([domain |-> Str("ok.test"), risk_score |-> Num(50)])

\* the category of SAMPLE_RESPONSE
SampleCategory ==
  Obj([verdict |-> Str("SUSPICIOUS"), risk_score |-> Num(66),
       confidence |-> Str("Medium"), malicious_count |-> Num(2),
       total_engines |-> Num(60), detections |-> Detections(2),
       results |-> Arr(<<SampleResult>>), count |-> Num(1)])

\* a category that carries a verdict and nothing else
BareCategory == Obj([verdict |-> Str("CLEAN")])

\* a category whose counts have to be derived from detections and results
DerivedCategory ==
  Obj([verdict |-> Str("UNKNOWN"), detections |-> Detections(2),
       results |-> Arr(<<RiskyResult, CalmResult>>)])

Verdicts == {"CLEAN", "SUSPICIOUS", "MALICIOUS", "UNKNOWN"}

RiskScores == {0, 40, 66, 69, 70, 100}

MaliciousCounts == {0, 1, 2, 3, 7, MaxMalicious}

EngineCounts == {0, 1, 10, 60}

DetectionCounts == {0, 2, MaxDetections}

ResultLists == {Arr(<<>>), Arr(<<RiskyResult>>), Arr(<<CalmResult, RiskyResult>>)}

\* the categories decideVerdict is checked on: every field absent or within
\* the data model
CategoryInputs ==
  {MkObj([verdict |-> v, risk_score |-> s, malicious_count |-> m,
          total_engines |-> e, detections |-> d, results |-> r]) :
     v \in {Absent} \cup {Str(x) : x \in Verdicts},
     s \in {Absent} \cup {Num(x) : x \in RiskScores},
     m \in {Absent} \cup {Num(x) : x \in MaliciousCounts},
     e \in {Absent} \cup {Num(x) : x \in EngineCounts},
     d \in {Absent} \cup {Detections(n) : n \in DetectionCounts},
     r \in {Absent} \cup ResultLists}

\* elements of a payload's category sequence
CategoryElems == {Null, Num(5), BareCategory, SampleCategory, DerivedCategory}

RECURSIVE SeqsUpTo(_, _)
\* the sequences over S of length at most n
SeqsUpTo(S, n) ==
  IF n = 0 THEN {<<>>}
  ELSE SeqsUpTo(S, n - 1)
         \cup {Append(q, x) : q \in {p \in SeqsUpTo(S, n - 1) : Len(p) = n - 1}, x \in S}

\* payloads that are not objects
PrimitivePayloads == {Undef, Null, Num(0), Num(7), Str(""), Str("ok")}

\* payloads that are sequences
ArrayPayloads == {Arr(q) : q \in SeqsUpTo(CategoryElems, MaxCats)}

\* which of input_url, domain, ip a payload carries
TargetChoices ==
  {[input_url |-> Absent, domain |-> Absent, ip |-> Absent],
   [input_url |-> Str("http://a.test"), domain |-> Absent, ip |-> Absent],
   [input_url |-> Absent, domain |-> Str("a.test"), ip |-> Absent],
   [input_url |-> Absent, domain |-> Absent, ip |-> Str("192.0.2.1")]}

\* which of items, count, confidence, malicious_count, total_engines it carries
ExtraChoices ==
  {[items |-> Absent, count |-> Absent, confidence |-> Absent,
    malicious_count |-> Absent, total_engines |-> Absent],
   [items |-> Arr(<<RiskyResult, CalmResult>>), count |-> Absent,
    confidence |-> Absent, malicious_count |-> Absent, total_engines |-> Absent],
   [items |-> Absent, count |-> Num(5), confidence |-> Str("High"),
    malicious_count |-> Num(2), total_engines |-> Num(60)],
   [items |-> Arr(<<SampleResult>>), count |-> Num(5), confidence |-> Absent,
    malicious_count |-> Absent, total_engines |-> Absent]}

\* payloads that are objects
ObjectPayloads ==
  {MkObj([categories |-> c, results |-> r, verdict |-> v, risk_score |-> s,
          detections |-> d, input_url |-> g.input_url, domain |-> g.domain,
          ip |-> g.ip, items |-> x.items, count |-> x.count,
          confidence |-> x.confidence, malicious_count |-> x.malicious_count,
          total_engines |-> x.total_engines]) :
     c \in {Absent, Str("none"), Arr(<<>>), Arr(<<BareCategory, SampleCategory>>),
            Arr(<<Null>>)},
     r \in {Absent, Str("n/a"), Arr(<<>>), Arr(<<Null>>), Arr(<<SampleResult>>),
            Arr(<<BareCategory, DerivedCategory>>),
            Arr(<<Obj([verdict |-> Str("")]), RiskyResult>>)},
     v \in {Absent, Str(""), Str("X")},
     s \in {Absent, Num(0), Num(66)},
     d \in {Absent, Null, Detections(2)},
     g \in TargetChoices,
     x \in ExtraChoices}

RawInputs == PrimitivePayloads \cup ArrayPayloads \cup ObjectPayloads

(***************************************************************************)
(* The pipeline of handleScan (src/unnamed/part_003:104-137): the fetched   *)
(* payload is normalized, then decided; an exception lands in the catch.    *)
(***************************************************************************)
Init ==
  /\ raw \in RawInputs
  /\ normalized = Undef
  /\ result = Null
  /\ again = Undef
  /\ error = ""
  /\ now = ClockStart
  /\ readAt = <<>>
  /\ storage = Null
  /\ saved = TRUE
  /\ loading = FALSE
  /\ history = Arr(<<>>)
  /\ url = ""
  /\ pc = "fetched"

\* let normalized = normalizeScanResponse(data)
Normalize ==
  /\ pc = "fetched"
  /\ IF normalizeScanResponse(raw) = TypeError
     THEN /\ error' = "TypeError"
          /\ pc' = "failed"
          /\ UNCHANGED normalized
     ELSE /\ normalized' = normalizeScanResponse(raw)
          /\ pc' = "normalized"
          /\ UNCHANGED error
  /\ UNCHANGED <<raw, result, again, now, readAt, storage, saved, loading, history, url>>

\* normalized = decideVerdict(normalized); setResult(normalized)
Decide ==
  /\ pc = "normalized"
  /\ IF decideVerdict(normalized) = TypeError
     THEN /\ error' = "TypeError"
          /\ pc' = "failed"
          /\ UNCHANGED result
     ELSE /\ result' = decideVerdict(normalized)
          /\ pc' = "decided"
          /\ UNCHANGED error
  /\ UNCHANGED <<raw, normalized, again, now, readAt, storage, saved, loading, history, url>>

Next == Normalize \/ Decide

Spec == Init /\ [][Next]_vars

(***************************************************************************)
(* decideVerdict applied to one category of the data model, and applied     *)
(* once more to its own output.                                             *)
(***************************************************************************)
InitDecide ==
  /\ raw = Undef
  /\ normalized \in {Arr(<<c>>) : c \in CategoryInputs}
  /\ result = Null
  /\ again = Undef
  /\ error = ""
  /\ now = ClockStart
  /\ readAt = <<>>
  /\ storage = Null
  /\ saved = TRUE
  /\ loading = FALSE
  /\ history = Arr(<<>>)
  /\ url = ""
  /\ pc = "normalized"

\* decideVerdict(decideVerdict(normalized))
Redecide ==
  /\ pc = "decided"
  /\ IF decideVerdict(result) = TypeError
     THEN /\ error' = "TypeError"
          /\ pc' = "failed"
          /\ UNCHANGED again
     ELSE /\ again' = decideVerdict(result)
          /\ pc' = "redecided"
          /\ UNCHANGED error
  /\ UNCHANGED <<raw, normalized, result, now, readAt, storage, saved, loading, history, url>>

NextDecide == Decide \/ Redecide

SpecDecide == InitDecide /\ [][NextDecide]_vars

(***************************************************************************)
(* Properties of normalizeScanResponse, checked under Spec.                 *)
(***************************************************************************)

\* C1: normalizeScanResponse is total: for every payload (absent, primitive,
\* a sequence with null elements, an object whose categories contains null
\* or whose results starts with null) it returns a sequence and never throws.
C1_NormalizeTotal == pc # "fetched" => IsArray(normalized)

\* C2: the payload is interpreted by the first matching rule of: (1) raw is
\* a sequence, (2) raw.categories is a sequence, (3) raw.results is a
\* non-empty sequence whose first element carries a verdict field, (4) raw
\* has any of verdict, risk_score, results, (5) raw has any of input_url,
\* domain, ip, (6) otherwise empty; rules 1-3 return one category per
\* element of the selected sequence, rules 4 and 5 one synthetic category.
C2_FirstMatchOrder ==
  pc = "normalized" =>
    LET has(x, k) == k \in DOMAIN OwnProps(x)
        res == Get(raw, "results")
        rule ==
          IF IsArray(raw) THEN 1
          ELSE IF raw.t # "object" THEN 6
          ELSE IF IsArray(Get(raw, "categories")) THEN 2
          ELSE IF IsArray(res) /\ Len(res.v) > 0 /\ has(res.v[1], "verdict")
               THEN 3
          ELSE IF has(raw, "verdict") \/ has(raw, "risk_score")
                    \/ has(raw, "results") THEN 4
          ELSE IF has(raw, "input_url") \/ has(raw, "domain") \/ has(raw, "ip")
               THEN 5
          ELSE 6
    IN  /\ rule = 1 => Len(normalized.v) = Len(raw.v)
        /\ rule = 2 => Len(normalized.v) = Len(Get(raw, "categories").v)
        /\ rule = 3 => Len(normalized.v) = Len(res.v)
        /\ rule = 4 => /\ Len(normalized.v) = 1
                       /\ Get(normalized.v[1], "_raw") = raw
                       /\ Get(normalized.v[1], "verdict")
                            = (IF has(raw, "verdict") /\ Get(raw, "verdict").v # ""
                               THEN Get(raw, "verdict") ELSE Str("UNKNOWN"))
        /\ rule = 5 => /\ Len(normalized.v) = 1
                       /\ Get(normalized.v[1], "results")
                            = Arr(<<normalizeResult(raw)>>)
        /\ rule = 6 => Len(normalized.v) = 0

\* C3: an object payload not matched by rules 1-3 that has any of the
\* fields verdict, risk_score, results - whatever the field's value - yields
\* exactly one synthetic category: verdict raw.verdict or else UNKNOWN,
\* risk_score, malicious_count and total_engines defaulting to 0, confidence
\* to N/A, detections raw.detections if a sequence else empty, _raw the
\* payload.
C3_SingleCategory ==
  LET has(x, k) == k \in DOMAIN OwnProps(x)
      res == Get(raw, "results")
      dflt(k, d) == IF Truthy(Get(raw, k)) THEN Get(raw, k) ELSE d
  IN  ( /\ pc = "normalized"
        /\ raw.t = "object"
        /\ ~IsArray(Get(raw, "categories"))
        /\ ~(IsArray(res) /\ Len(res.v) > 0 /\ has(res.v[1], "verdict"))
        /\ has(raw, "verdict") \/ has(raw, "risk_score") \/ has(raw, "results") )
      => /\ Len(normalized.v) = 1
         /\ Get(normalized.v[1], "verdict") = dflt("verdict", Str("UNKNOWN"))
         /\ Get(normalized.v[1], "risk_score") = dflt("risk_score", Num(0))
         /\ Get(normalized.v[1], "confidence") = dflt("confidence", Str("N/A"))
         /\ Get(normalized.v[1], "malicious_count") = dflt("malicious_count", Num(0))
         /\ Get(normalized.v[1], "total_engines") = dflt("total_engines", Num(0))
         /\ Get(normalized.v[1], "detections")
              = (IF IsArray(Get(raw, "detections")) THEN Get(raw, "detections")
                 ELSE Arr(<<>>))
         /\ Get(normalized.v[1], "_raw") = raw

\* C4: every category returned by normalizeScanResponse, under any of the
\* recognized shapes, has detections present as a sequence.
C4_DetectionsPresent ==
  pc = "normalized" =>
    LET src == IF IsArray(raw) THEN raw
               ELSE IF IsArray(Get(raw, "categories")) THEN Get(raw, "categories")
               ELSE normalized
    IN  \A i \in 1..Len(normalized.v) :
          src.v[i].t = "object" => IsArray(Get(normalized.v[i], "detections"))

(***************************************************************************)
(* Properties of decideVerdict, checked under SpecDecide.                   *)
(***************************************************************************)

\* C5 as stated: whenever the effective totalEngines (explicit total_engines,
\* else 70 with non-empty detections, else 0) is positive the output
\* risk_score is round(maliciousCount / totalEngines * 100), also when the
\* input carried another risk_score; with totalEngines 0 it is the
\* pre-existing risk_score, else 0.
C5_RecomputedRiskScore ==
  pc \in {"decided", "redecided"} =>
    \A i \in 1..Len(result.v) :
      LET c == normalized.v[i]
          o == Get(result.v[i], "risk_score")
          d == Get(c, "detections")
          te == IF Defined(c, "total_engines") THEN Get(c, "total_engines").v
                ELSE IF IsArray(d) /\ Len(d.v) > 0 THEN 70 ELSE 0
          mc == maliciousCount(c)
      IN  /\ o.t = "number"
          /\ te > 0 => /\ 2 * o.v * te - te <= 200 * mc
                       /\ 200 * mc < 2 * o.v * te + te
          /\ te = 0 => o = (IF Defined(c, "risk_score")
                            THEN Get(c, "risk_score") ELSE Num(0))

\* C5 amended: the output risk_score is the input category's risk_score
\* whenever the input carries one; only when it carries none is it
\* round(maliciousCount / totalEngines * 100) for totalEngines > 0 and 0 for
\* totalEngines = 0.
C5_RiskScoreOutput ==
  pc \in {"decided", "redecided"} =>
    \A i \in 1..Len(result.v) :
      LET c == normalized.v[i]
          o == Get(result.v[i], "risk_score")
          d == Get(c, "detections")
          te == IF Defined(c, "total_engines") THEN Get(c, "total_engines").v
                ELSE IF IsArray(d) /\ Len(d.v) > 0 THEN 70 ELSE 0
          mc == maliciousCount(c)
      IN  /\ o.t = "number"
          /\ Defined(c, "risk_score") => o = Get(c, "risk_score")
          /\ (~Defined(c, "risk_score") /\ te > 0) =>
               /\ 2 * o.v * te - te <= 200 * mc
               /\ 200 * mc < 2 * o.v * te + te
          /\ (~Defined(c, "risk_score") /\ te = 0) => o.v = 0

\* the category with malicious_count 2, total_engines 60, risk_score 66 has
\* been decided and its output risk_score is 66 (the recomputed score is 3)
C5_Witness ==
  /\ pc = "decided"
  /\ Get(normalized.v[1], "malicious_count") = Num(2)
  /\ Get(normalized.v[1], "total_engines") = Num(60)
  /\ Get(normalized.v[1], "risk_score") = Num(66)
  /\ riskScore(normalized.v[1]) = 3
  /\ Get(result.v[1], "risk_score") = Num(66)

\* C6: on a category with explicit malicious_count and total_engines
\* (total_engines = 0 included) a second decideVerdict changes none of
\* verdict, risk_score, malicious_count, total_engines.
C6_Idempotent ==
  ( /\ pc = "redecided"
    /\ Defined(normalized.v[1], "malicious_count")
    /\ Defined(normalized.v[1], "total_engines") )
  => \A f \in {"verdict", "risk_score", "malicious_count", "total_engines"} :
       Get(again.v[1], f) = Get(result.v[1], f)

\* C7: for an input verdict among CLEAN, SUSPICIOUS, MALICIOUS the output
\* verdict never ranks below it (CLEAN 1 < SUSPICIOUS 2 < MALICIOUS 3) and
\* is the higher-ranked of the input verdict and the computed verdict.
C7_EscalationOnly ==
  pc \in {"decided", "redecided"} =>
    \A i \in 1..Len(result.v) :
      LET rank(s) == CASE s = "CLEAN" -> 1 [] s = "SUSPICIOUS" -> 2
                       [] s = "MALICIOUS" -> 3 [] OTHER -> 0
          c == normalized.v[i]
          in == Get(c, "verdict")
          out == Get(result.v[i], "verdict")
          computed == classify(riskScore(c), maliciousCount(c))
      IN  (in.t = "string" /\ in.v \in {"CLEAN", "SUSPICIOUS", "MALICIOUS"}) =>
            /\ out.t = "string"
            /\ rank(out.v) >= rank(in.v)
            /\ rank(out.v) >= rank(computed)
            /\ out.v \in {in.v, computed}

\* an explicit SUSPICIOUS whose computed verdict is CLEAN came out SUSPICIOUS
C7_Witness ==
  /\ pc = "decided"
  /\ Get(normalized.v[1], "verdict") = Str("SUSPICIOUS")
  /\ classify(riskScore(normalized.v[1]), maliciousCount(normalized.v[1])) = "CLEAN"
  /\ Get(result.v[1], "verdict") = Str("SUSPICIOUS")

\* C8 as stated: with no more-severe explicit verdict, riskScore 69 with
\* maliciousCount 2 is CLEAN, riskScore 70 is MALICIOUS, riskScore 40 with
\* maliciousCount 0 is SUSPICIOUS.
C8_BoundariesStated ==
  pc \in {"decided", "redecided"} =>
    \A i \in 1..Len(result.v) :
      LET c == normalized.v[i]
          explicit == verdictRank(Get(c, "verdict"))
          out == Get(result.v[i], "verdict")
      IN  /\ (riskScore(c) = 69 /\ maliciousCount(c) = 2 /\ explicit <= 1)
                => out = Str("CLEAN")
          /\ riskScore(c) = 70 => out = Str("MALICIOUS")
          /\ (riskScore(c) = 40 /\ maliciousCount(c) = 0 /\ explicit <= 2)
                => out = Str("SUSPICIOUS")

\* C8 amended: with no more-severe explicit verdict, riskScore 69 with
\* maliciousCount 2 is SUSPICIOUS (69 >= 40), riskScore 70 is MALICIOUS,
\* riskScore 40 with maliciousCount 0 is SUSPICIOUS.
C8_Boundaries ==
  pc \in {"decided", "redecided"} =>
    \A i \in 1..Len(result.v) :
      LET c == normalized.v[i]
          explicit == verdictRank(Get(c, "verdict"))
          out == Get(result.v[i], "verdict")
      IN  /\ (riskScore(c) = 69 /\ maliciousCount(c) = 2 /\ explicit <= 2)
                => out = Str("SUSPICIOUS")
          /\ riskScore(c) = 70 => out = Str("MALICIOUS")
          /\ (riskScore(c) = 40 /\ maliciousCount(c) = 0 /\ explicit <= 2)
                => out = Str("SUSPICIOUS")

\* a category with riskScore 69, maliciousCount 2 and no verdict of its own
\* has been decided SUSPICIOUS
C8_Witness ==
  /\ pc = "decided"
  /\ riskScore(normalized.v[1]) = 69
  /\ maliciousCount(normalized.v[1]) = 2
  /\ ~Defined(normalized.v[1], "verdict")
  /\ Get(result.v[1], "verdict") = Str("SUSPICIOUS")

\* C9: every output risk_score lies in 0..100 for every input category of
\* the data model, also when maliciousCount exceeds totalEngines.
C9_RiskScoreRange ==
  pc \in {"decided", "redecided"} =>
    \A i \in 1..Len(result.v) :
      /\ Get(result.v[i], "risk_score").t = "number"
      /\ Get(result.v[i], "risk_score").v \in 0..100

\* C10: every output total_engines is at least 1: exactly 1 when the
\* explicit or computed value is 0, that value otherwise.
C10_TotalEnginesAtLeastOne ==
  pc \in {"decided", "redecided"} =>
    \A i \in 1..Len(result.v) :
      LET c == normalized.v[i]
          d == Get(c, "detections")
          te == IF Defined(c, "total_engines") THEN Get(c, "total_engines").v
                ELSE IF IsArray(d) /\ Len(d.v) > 0 THEN 70 ELSE 0
          o == Get(result.v[i], "total_engines")
      IN  /\ o.t = "number"
          /\ o.v >= 1
          /\ te = 0 => o.v = 1
          /\ te # 0 => o.v = te

\* a category with explicit total_engines 0 has been decided and carries 1
C10_Witness ==
  /\ pc = "decided"
  /\ Get(normalized.v[1], "total_engines") = Num(0)
  /\ Get(result.v[1], "total_engines") = Num(1)

(***************************************************************************)
(* decideVerdict applied to any argument: a one-category sequence or a      *)
(* value that is not a sequence.                                            *)
(***************************************************************************)
NonSequenceInputs == {Undef, Null, Num(3), Str("CLEAN"), SampleCategory}

\* verdicts outside CLEAN, SUSPICIOUS, MALICIOUS, as a payload can carry them
OddVerdicts ==
  {Null, Num(3), Bool(TRUE), Str(""), Str("malicious"), Str("Clean"),
   Str("phishing"), Arr(<<Str("UNKNOWN")>>), Arr(<<Str("MALICIOUS")>>)}

OddVerdictCategories ==
  {MkObj([verdict |-> v, malicious_count |-> m, total_engines |-> Num(60)]) :
     v \in OddVerdicts, m \in {Absent} \cup {Num(x) : x \in MaliciousCounts}}

InitFrame ==
  /\ raw = Undef
  /\ normalized \in {Arr(<<c>>) : c \in CategoryInputs \cup OddVerdictCategories}
                      \cup NonSequenceInputs
  /\ result = Null
  /\ again = Undef
  /\ error = ""
  /\ now = ClockStart
  /\ readAt = <<>>
  /\ storage = Null
  /\ saved = TRUE
  /\ loading = FALSE
  /\ history = Arr(<<>>)
  /\ url = ""
  /\ pc = "normalized"

SpecFrame == InitFrame /\ [][NextDecide]_vars

\* C11: decideVerdict is non-mutating: a call leaves its argument (the
\* sequence and every category, result and detection in it) as it was, each
\* output category keeps every input field other than verdict, risk_score,
\* malicious_count and total_engines, and an argument that is not a
\* sequence is returned unchanged.
C11_NonMutating ==
  [][(pc = "normalized" /\ pc' = "decided") =>
       /\ normalized' = normalized
       /\ IF IsArray(normalized)
          THEN /\ IsArray(result')
               /\ Len(result'.v) = Len(normalized.v)
               /\ \A i \in 1..Len(normalized.v) :
                    LET own == {"verdict", "risk_score", "malicious_count",
                                "total_engines"}
                        c == normalized.v[i]
                        o == result'.v[i]
                    IN  /\ o.t = "object"
                        /\ DOMAIN o.v = (DOMAIN OwnProps(c)) \cup own
                        /\ \A k \in (DOMAIN OwnProps(c)) \ own : o.v[k] = c.v[k]
          ELSE result' = normalized]_vars

\* a category with detections and results has been decided: its verdict
\* was replaced in the output, and the argument still holds the old one
C11_Witness ==
  /\ pc = "decided"
  /\ IsArray(normalized)
  /\ Get(normalized.v[1], "verdict") = Str("UNKNOWN")
  /\ Get(result.v[1], "verdict") = Str("MALICIOUS")
  /\ Get(normalized.v[1], "detections") = Detections(2)
  /\ Get(result.v[1], "detections") = Detections(2)
  /\ Get(normalized.v[1], "results") = Arr(<<CalmResult, RiskyResult>>)
  /\ Get(result.v[1], "results") = Arr(<<CalmResult, RiskyResult>>)

(***************************************************************************)
(* normalizeResult applied to one scan result.                              *)
(***************************************************************************)
\* scan results over the favicon and screenshot alias fields
ResultObjects ==
  {MkObj([domain |-> Str("a.test"), favicon_url |-> fu, favicon |-> fa,
          favicons |-> fs, favicon_base64 |-> fb, screenshot |-> sc,
          screenshot_url |-> su, screenshot_base64 |-> sb]) :
     fu \in {Absent, Null, Str(""), Str("http://a.test/favicon.ico")},
     fa \in {Absent, Str("http://cdn.test/f.ico")},
     fs \in {Absent, Arr(<<Obj([url |-> Str("http://cap.test/f.png")])>>)},
     fb \in {Absent, Str(""), Str("QUJD")},
     sc \in {Absent, Obj([image_url |-> Null]),
             Obj([image_url |-> Str("http://cap.test/s.png")]),
             Obj([screenshot_base64 |-> Str("Wlo=")])},
     su \in {Absent, Str("http://img.test/s.png")},
     sb \in {Absent, Str("WVk=")}}

ResultInputs == ResultObjects \cup {Undef, Null, Num(0), Num(7), Str("n/a")}

InitResult ==
  /\ raw \in ResultInputs
  /\ normalized = Undef
  /\ result = Null
  /\ again = Undef
  /\ error = ""
  /\ now = ClockStart
  /\ readAt = <<>>
  /\ storage = Null
  /\ saved = TRUE
  /\ loading = FALSE
  /\ history = Arr(<<>>)
  /\ url = ""
  /\ pc = "result"

\* normalizeResult(r)
NormalizeResult ==
  /\ pc = "result"
  /\ result' = normalizeResult(raw)
  /\ pc' = "resultNormalized"
  /\ UNCHANGED <<raw, normalized, again, error, now, readAt, storage, saved, loading, history, url>>

SpecResult == InitResult /\ [][NormalizeResult]_vars

\* C12: normalizeResult never discards or alters an original field: every
\* key of an object input is a key of the output with the same value (also
\* for a falsy favicon_url or favicon_base64, or when another favicon alias
\* is set), and a non-object input is returned unchanged.
C12_FieldsPreserved ==
  pc = "resultNormalized" =>
    IF raw.t = "object"
    THEN /\ result.t = "object"
         /\ \A k \in DOMAIN raw.v : k \in DOMAIN result.v /\ result.v[k] = raw.v[k]
    ELSE result = raw

(***************************************************************************)
(* WHOIS utilities (src/whoisUtils.js).  The clock counts half days since   *)
(* the epoch; a date string denotes the midnight that starts its day.  An   *)
(* evaluation is given the reading `t` that its `new Date()` returns.       *)
(***************************************************************************)
\* the day number new Date(s) denotes for the date strings of the inputs
DateTable ==
  [x \in {"2024-01-01", "2024-12-25", "2025-01-20", "2026-06-01"} |->
     CASE x = "2024-01-01" -> 19723
       [] x = "2024-12-25" -> 20082
       [] x = "2025-01-20" -> 20108
       [] x = "2026-06-01" -> 20605]

\* date.toLocaleDateString('en-US', {year:'numeric', month:'short', day:'numeric'})
DateLabel ==
  [x \in DOMAIN DateTable |->
     CASE x = "2024-01-01" -> "Jan 1, 2024"
       [] x = "2024-12-25" -> "Dec 25, 2024"
       [] x = "2025-01-20" -> "Jan 20, 2025"
       [] x = "2026-06-01" -> "Jun 1, 2026"]

\* !isNaN(new Date(x).getTime()): the inputs carry dates as strings
ValidDate(x) == x.t = "string" /\ x.v \in DOMAIN DateTable

\* Array.isArray(d) ? d[0] : d
firstDate(d) ==
  IF IsArray(d) THEN (IF Len(d.v) > 0 THEN d.v[1] ELSE Undef) ELSE d

\* hasWhoisData (lines 10-23)
hasWhoisData(whois) ==
  IF ~Truthy(whois) \/ ~TypeofObject(whois) THEN FALSE
  ELSE \E k \in {"domain_name", "domain", "registrar", "org", "organization",
                 "country", "creation_date", "created", "creationDate",
                 "expiration_date", "expires", "expirationDate",
                 "name_servers", "nameServers"} : Truthy(Get(whois, k))

\* normalizeWhoisFields (lines 30-49)
normalizeWhoisFields(whois) ==
  IF ~Truthy(whois) THEN Obj(<<>>)
  ELSE Obj([
    domain_name |-> Or(Get(whois, "domain_name"), Or(Get(whois, "domain"),
                       Get(whois, "domainName"))),
    registrar |-> Or(Get(whois, "registrar"), Get(whois, "sponsoring_registrar")),
    org |-> Or(Get(whois, "org"), Or(Get(whois, "organization"),
               Or(Get(whois, "registrant_organization"),
                  Get(whois, "registrant_org")))),
    country |-> Or(Get(whois, "country"), Get(whois, "registrant_country")),
    state |-> Or(Get(whois, "state"), Get(whois, "registrant_state")),
    city |-> Or(Get(whois, "city"), Get(whois, "registrant_city")),
    creation_date |-> Or(Get(whois, "creation_date"), Or(Get(whois, "created"),
                         Or(Get(whois, "creationDate"), Get(whois, "created_date")))),
    updated_date |-> Or(Get(whois, "updated_date"), Or(Get(whois, "updated"),
                        Or(Get(whois, "updatedDate"), Get(whois, "last_updated")))),
    expiration_date |-> Or(Get(whois, "expiration_date"), Or(Get(whois, "expires"),
                           Or(Get(whois, "expirationDate"), Get(whois, "expiry_date")))),
    name_servers |-> Or(Get(whois, "name_servers"), Or(Get(whois, "nameServers"),
                        Get(whois, "nserver"))),
    status |-> Or(Get(whois, "status"), Or(Get(whois, "domain_status"),
                  Get(whois, "domainStatus"))),
    registrant_name |-> Or(Get(whois, "registrant_name"), Get(whois, "registrant")),
    registrant_email |-> Or(Get(whois, "registrant_email"), Get(whois, "email")),
    dnssec |-> Get(whois, "dnssec")])

\* formatWhoisDate that gives up on a date it cannot parse
formatWhoisDate_NullOnInvalid(dateValue) ==
  IF ~Truthy(dateValue) THEN Null
  ELSE IF ~Truthy(firstDate(dateValue)) THEN Null
  ELSE IF ~ValidDate(firstDate(dateValue)) THEN Null
  ELSE Str(DateLabel[firstDate(dateValue).v])

\* formatWhoisDate (lines 56-75)
formatWhoisDate(dateValue) ==
  IF ~Truthy(dateValue) THEN Null
  ELSE IF ~Truthy(firstDate(dateValue)) THEN Null
  ELSE IF ~ValidDate(firstDate(dateValue)) THEN firstDate(dateValue)
  ELSE Str(DateLabel[firstDate(dateValue).v])

\* calculateDomainAge (lines 82-100): Math.round(ageYears * 10) / 10 with
\* ageYears = (t - created) / 365.25 days, i.e. round(20 * halfDays / 1461)
calculateDomainAge(creationDate, t) ==
  IF ~Truthy(creationDate) THEN Null
  ELSE IF ~Truthy(firstDate(creationDate)) THEN Null
  ELSE IF ~ValidDate(firstDate(creationDate)) THEN Null
  ELSE Tenths((40 * (t - 2 * DateTable[firstDate(creationDate).v]) + 1461)
                \div 2922)

\* calculateDomainAgeInDays (lines 107-125)
calculateDomainAgeInDays(creationDate, t) ==
  IF ~Truthy(creationDate) THEN Null
  ELSE IF ~Truthy(firstDate(creationDate)) THEN Null
  ELSE IF ~ValidDate(firstDate(creationDate)) THEN Null
  ELSE Num((t - 2 * DateTable[firstDate(creationDate).v]) \div 2)

\* daysUntilExpiration counting the days since the expiration
daysUntilExpiration_Elapsed(expirationDate, t) ==
  IF ~Truthy(expirationDate) THEN Null
  ELSE IF ~Truthy(firstDate(expirationDate)) THEN Null
  ELSE IF ~ValidDate(firstDate(expirationDate)) THEN Null
  ELSE Num((t - 2 * DateTable[firstDate(expirationDate).v]) \div 2)

\* daysUntilExpiration (lines 132-150)
daysUntilExpiration(expirationDate, t) ==
  IF ~Truthy(expirationDate) THEN Null
  ELSE IF ~Truthy(firstDate(expirationDate)) THEN Null
  ELSE IF ~ValidDate(firstDate(expirationDate)) THEN Null
  ELSE Num((2 * DateTable[firstDate(expirationDate).v] - t) \div 2)

\* isDomainExpired (lines 157-160)
isDomainExpired(expirationDate, t) ==
  Bool(daysUntilExpiration(expirationDate, t).t # "null"
       /\ daysUntilExpiration(expirationDate, t).v < 0)

\* isDomainExpiringSoon (lines 167-170)
isDomainExpiringSoon(expirationDate, t) ==
  Bool(daysUntilExpiration(expirationDate, t).t # "null"
       /\ daysUntilExpiration(expirationDate, t).v >= 0
       /\ daysUntilExpiration(expirationDate, t).v <= 30)

\* xs.filter(s => s && typeof s === 'string')
filterStrings(xs) == Arr(SelectSeq(xs.v, LAMBDA x : Truthy(x) /\ x.t = "string"))

\* formatNameServers (lines 177-189)
formatNameServers(nameServers) ==
  IF ~Truthy(nameServers) THEN Arr(<<>>)
  ELSE IF IsArray(nameServers) THEN filterStrings(nameServers)
  ELSE IF nameServers.t = "string" THEN Arr(<<nameServers>>)
  ELSE Arr(<<>>)

\* getRegistrantInfo (lines 196-207)
getRegistrantInfo(whois) ==
  IF ~Truthy(whois) THEN Null
  ELSE Obj([
    name |-> Or(Get(whois, "registrant_name"), Or(Get(whois, "registrant"), Null)),
    organization |-> Or(Get(whois, "org"),
                        Or(Get(whois, "registrant_organization"), Null)),
    email |-> Or(Get(whois, "registrant_email"), Or(Get(whois, "email"), Null)),
    country |-> Or(Get(whois, "country"), Or(Get(whois, "registrant_country"), Null)),
    state |-> Or(Get(whois, "state"), Or(Get(whois, "registrant_state"), Null)),
    city |-> Or(Get(whois, "city"), Or(Get(whois, "registrant_city"), Null))])

\* getDomainStatus (lines 214-228)
getDomainStatus(whois) ==
  IF ~Truthy(whois) THEN Arr(<<>>)
  ELSE IF IsArray(Or(Get(whois, "status"), Get(whois, "domain_status")))
       THEN filterStrings(Or(Get(whois, "status"), Get(whois, "domain_status")))
  ELSE IF Or(Get(whois, "status"), Get(whois, "domain_status")).t = "string"
       THEN Arr(<<Or(Get(whois, "status"), Get(whois, "domain_status"))>>)
  ELSE Arr(<<>>)

\* parseWhoisData (lines 235-264), every new Date() of the call reading t
parseWhoisData(whois, t) ==
  IF ~hasWhoisData(whois) THEN Null
  ELSE LET nz == normalizeWhoisFields(whois)
       IN  Obj([
             domain |-> Or(Get(nz, "domain_name"), Null),
             registrar |-> Or(Get(nz, "registrar"), Null),
             registrant |-> getRegistrantInfo(nz),
             dates |-> Obj([
               created |-> formatWhoisDate(Get(nz, "creation_date")),
               updated |-> formatWhoisDate(Get(nz, "updated_date")),
               expires |-> formatWhoisDate(Get(nz, "expiration_date")),
               age |-> calculateDomainAge(Get(nz, "creation_date"), t),
               ageInDays |-> calculateDomainAgeInDays(Get(nz, "creation_date"), t),
               daysToExpiry |-> daysUntilExpiration(Get(nz, "expiration_date"), t)]),
             nameServers |-> formatNameServers(Get(nz, "name_servers")),
             status |-> getDomainStatus(nz),
             dnssec |-> Or(Get(nz, "dnssec"), Null),
             isExpired |-> isDomainExpired(Get(nz, "expiration_date"), t),
             isExpiringSoon |-> isDomainExpiringSoon(Get(nz, "expiration_date"), t),
             raw |-> whois])

(***************************************************************************)
(* WHOIS records handed to parseWhoisData, and its evaluation at the        *)
(* current clock reading, once and then once more after time has passed.    *)
(***************************************************************************)
\* the keys normalizeWhoisFields reads for the fields hasWhoisData gates on
GateAliases ==
  {"domain_name", "domain", "domainName", "registrar", "sponsoring_registrar",
   "org", "organization", "registrant_organization", "registrant_org",
   "country", "registrant_country",
   "creation_date", "created", "creationDate", "created_date",
   "expiration_date", "expires", "expirationDate", "expiry_date",
   "name_servers", "nameServers", "nserver"}

NotADate == Str("not a date")

DateInputs ==
  {Absent, Null, Str(""), NotADate,
   Str("2024-01-01"), Str("2024-12-25"), Str("2025-01-20"), Str("2026-06-01"),
   Arr(<<>>), Arr(<<NotADate, Str("2024-01-01")>>),
   Arr(<<Str("2025-01-20"), NotADate>>)}

SingleAliasRecords ==
  {Obj([k \in {a} |-> x]) :
     a \in GateAliases, x \in {Str(""), Str("example.test")}}

DatedRecords ==
  {MkObj([creation_date |-> c, expiration_date |-> e]) :
     c \in DateInputs, e \in DateInputs}

\* records that hold a canonical field under two aliases, the earlier one
\* with a falsy value
AliasPairRecords ==
  {Obj([domain_name |-> Str(""), domain |-> Str("example.test")]),
   Obj([registrar |-> Null, sponsoring_registrar |-> Str("Example Registrar")]),
   Obj([org |-> Str(""), organization |-> Str("Example Org"),
        country |-> Str("US")]),
   Obj([creation_date |-> Str(""), created |-> Str("2024-01-01"),
        registrar |-> Str("Example Registrar")]),
   Obj([name_servers |-> Num(0), nserver |-> Str("ns1.a.test"),
        domain |-> Str("example.test"), domainName |-> Str("other.test")])}

WhoisInputs ==
  SingleAliasRecords \cup DatedRecords \cup AliasPairRecords
    \cup {Undef, Null, Num(0), Str("whois"), Arr(<<>>),
          Obj([status |-> Str("ok")]),
          Obj([registrar |-> Str("Example Registrar"),
               nserver |-> Arr(<<Str("ns1.a.test"), Null>>),
               created |-> Str("2024-01-01"),
               expires |-> Str("2025-01-20")])}

InitWhois ==
  /\ raw \in WhoisInputs
  /\ normalized = Undef
  /\ result = Undef
  /\ again = Undef
  /\ error = ""
  /\ now = ClockStart
  /\ readAt = <<>>
  /\ storage = Null
  /\ saved = TRUE
  /\ loading = FALSE
  /\ history = Arr(<<>>)
  /\ url = ""
  /\ pc = "whois"

\* time passes
Tick ==
  /\ now < ClockStart + MaxTicks
  /\ now' = now + 1
  /\ UNCHANGED <<raw, normalized, result, again, error, pc, readAt, storage, saved, loading, history, url>>

\* const whois = parseWhoisData(r.whois) (src/unnamed/part_003 line 376)
ParseWhois ==
  /\ pc = "whois"
  /\ result' = parseWhoisData(raw, now)
  /\ readAt' = <<now>>
  /\ pc' = "parsed"
  /\ UNCHANGED <<raw, normalized, again, error, now, storage, saved, loading, history, url>>

\* the same record parsed once more, on a later render
ParseAgain ==
  /\ pc = "parsed"
  /\ again' = parseWhoisData(raw, now)
  /\ readAt' = Append(readAt, now)
  /\ pc' = "reparsed"
  /\ UNCHANGED <<raw, normalized, result, error, now, storage, saved, loading, history, url>>

NextWhois == Tick \/ ParseWhois \/ ParseAgain

SpecWhois == InitWhois /\ [][NextWhois]_vars

\* C13: hasWhoisData(w) is true exactly when w is an object holding a value
\* under some alias key the normalizer accepts for a gate field, and
\* parseWhoisData(w) is null exactly when hasWhoisData(w) is false
C13_GateAliases ==
  pc = "parsed" =>
    /\ hasWhoisData(raw) <=>
         (raw.t = "object" /\ \E k \in GateAliases : Truthy(Get(raw, k)))
    /\ (result = Null) <=> ~hasWhoisData(raw)

\* the date value d, or the first element of the sequence d, is a non-empty
\* string that does not parse as a date
Unparseable(d) ==
  /\ firstDate(d).t = "string"
  /\ firstDate(d).v # ""
  /\ ~ValidDate(firstDate(d))

\* C14: a date value that is (or whose first element is) a non-empty
\* unparseable string is shown as that string, its age, age in days and days
\* to expiry are null, it is neither expired nor expiring soon; and a sequence
\* value gives what its first element alone gives
C14_UnparseableDates ==
  pc = "parsed" /\ result # Null =>
    LET c == Get(normalizeWhoisFields(raw), "creation_date")
        e == Get(normalizeWhoisFields(raw), "expiration_date")
        d == result.v.dates.v
        t == readAt[1]
    IN  /\ Unparseable(c) =>
             /\ d.created = firstDate(c)
             /\ d.age = Null
             /\ d.ageInDays = Null
        /\ Unparseable(e) =>
             /\ d.expires = firstDate(e)
             /\ d.daysToExpiry = Null
             /\ result.v.isExpired = Bool(FALSE)
             /\ result.v.isExpiringSoon = Bool(FALSE)
        /\ IsArray(c) =>
             /\ d.created = formatWhoisDate(firstDate(c))
             /\ d.age = calculateDomainAge(firstDate(c), t)
             /\ d.ageInDays = calculateDomainAgeInDays(firstDate(c), t)
        /\ IsArray(e) =>
             /\ d.expires = formatWhoisDate(firstDate(e))
             /\ d.daysToExpiry = daysUntilExpiration(firstDate(e), t)
             /\ result.v.isExpired = isDomainExpired(firstDate(e), t)
             /\ result.v.isExpiringSoon = isDomainExpiringSoon(firstDate(e), t)

C14_Witness ==
  /\ pc = "parsed"
  /\ raw = Obj([creation_date |-> Arr(<<NotADate, Str("2024-01-01")>>),
                expiration_date |-> Arr(<<Str("2025-01-20"), NotADate>>)])
  /\ result.v.dates.v.created = NotADate
  /\ result.v.dates.v.ageInDays = Null
  /\ result.v.dates.v.expires = Str("Jan 20, 2025")
  /\ result.v.isExpiringSoon = Bool(TRUE)

\* C16 as stated: parsing the same record at any two evaluation times gives
\* the same result, its age, ageInDays, daysToExpiry, isExpired and
\* isExpiringSoon included
C16_SameAtAnyTime == pc = "reparsed" => again = result

\* C16: two parses of the same record agree in every field that is not
\* derived from the clock, and agree entirely when given the same reading;
\* between an earlier and a later reading the age in days grows by the days
\* elapsed (within a day), the days to expiry shrink by them, the age in
\* years does not shrink, and an expired domain stays expired
C16_ClockDependent ==
  pc = "reparsed" /\ result # Null =>
    LET r == result.v
        a == again.v
        elapsed == readAt[2] - readAt[1]
    IN  /\ again # Null
        /\ \A k \in DOMAIN r \ {"dates", "isExpired", "isExpiringSoon"} :
             a[k] = r[k]
        /\ \A k \in {"created", "updated", "expires"} :
             a.dates.v[k] = r.dates.v[k]
        /\ elapsed = 0 => again = result
        /\ \A k \in {"age", "ageInDays", "daysToExpiry"} :
             (a.dates.v[k] = Null) <=> (r.dates.v[k] = Null)
        /\ r.dates.v.ageInDays # Null =>
             /\ 2 * (a.dates.v.ageInDays.v - r.dates.v.ageInDays.v)
                  \in (elapsed - 1) .. (elapsed + 1)
             /\ a.dates.v.age.tenths >= r.dates.v.age.tenths
        /\ r.dates.v.daysToExpiry # Null =>
             2 * (r.dates.v.daysToExpiry.v - a.dates.v.daysToExpiry.v)
               \in (elapsed - 1) .. (elapsed + 1)
        /\ r.isExpired = Bool(TRUE) => a.isExpired = Bool(TRUE)

C16_Witness ==
  /\ pc = "reparsed"
  /\ readAt[2] > readAt[1]
  /\ result # Null
  /\ result.v.dates.v.created = Str("Jan 1, 2024")
  /\ result.v.dates.v.expires = Str("Jan 20, 2025")
  /\ again.v.dates.v.ageInDays.v = result.v.dates.v.ageInDays.v + 1
  /\ again.v.dates.v.daysToExpiry.v < result.v.dates.v.daysToExpiry.v

(***************************************************************************)
(* parseVTResult (src/unnamed/part_001).  NaN and Infinity are the two      *)
(* values of type number that Number.isFinite rejects.                      *)
(***************************************************************************)
NaN == [t |-> "NaN"]

Infinity == [t |-> "Infinity"]

\* Number(s) for a string s: the numeric strings of the inputs, NaN otherwise
StringToNumber(s) ==
  CASE s = "" -> Num(0)
    [] s = "7" -> Num(7)
    [] s = " 30 " -> Num(30)
    [] s = "85" -> Num(85)
    [] s = "Infinity" -> Infinity
    [] OTHER -> NaN

\* Number(x); a sequence converts through its string, which is looked at for
\* sequences of at most one primitive element
ToNumber(x) ==
  CASE x.t = "undefined" -> NaN
    [] x.t = "null" -> Num(0)
    [] x.t = "boolean" -> Num(IF x.v THEN 1 ELSE 0)
    [] x.t = "number" -> x
    [] x.t = "string" -> StringToNumber(x.v)
    [] x.t = "array" ->
         IF Len(x.v) = 0 THEN Num(0)
         ELSE IF Len(x.v) > 1 THEN NaN
         ELSE IF IsNullish(x.v[1]) THEN Num(0)
         ELSE IF x.v[1].t = "number" THEN x.v[1]
         ELSE IF x.v[1].t = "string" THEN StringToNumber(x.v[1].v)
         ELSE NaN
    [] OTHER -> NaN

\* Number.isFinite(Number(x)) ? Number(x) : 0
finiteOrZero(x) == IF ToNumber(x).t = "number" THEN ToNumber(x) ELSE Num(0)

\* vtData && typeof vtData === 'object' ? vtData : {}
safeVT(vtData) ==
  IF Truthy(vtData) /\ TypeofObject(vtData) THEN vtData ELSE Obj(<<>>)

\* the confidence with both thresholds inclusive
vtConfidence_Inclusive(safe, riskScoreVT) ==
  IF Get(safe, "confidence").t = "string" THEN Get(safe, "confidence")
  ELSE IF riskScoreVT.v >= 70 THEN Str("High")
  ELSE IF riskScoreVT.v >= 30 THEN Str("Medium")
  ELSE Str("Low")

\* const confidence = ... (lines 23-30)
vtConfidence(safe, riskScoreVT) ==
  IF Get(safe, "confidence").t = "string" THEN Get(safe, "confidence")
  ELSE IF riskScoreVT.v > 70 THEN Str("High")
  ELSE IF riskScoreVT.v > 30 THEN Str("Medium")
  ELSE Str("Low")

\* parseVTResult (lines 1-45)
parseVTResult(vtData) ==
  LET safe == safeVT(vtData)
  IN  Obj([
        verdict |-> IF Get(safe, "verdict").t = "string"
                    THEN Get(safe, "verdict") ELSE Str("UNKNOWN"),
        risk_score |-> finiteOrZero(Get(safe, "risk_score")),
        confidence |-> vtConfidence(safe, finiteOrZero(Get(safe, "risk_score"))),
        malicious_count |-> finiteOrZero(Get(safe, "malicious_count")),
        total_engines |-> finiteOrZero(Get(safe, "total_engines")),
        detections |-> IF IsArray(Get(safe, "detections"))
                       THEN Get(safe, "detections") ELSE Arr(<<>>),
        count |-> Num(1)])

VTObjects ==
  {MkObj([verdict |-> v, risk_score |-> rs, confidence |-> c,
          malicious_count |-> m, total_engines |-> te, detections |-> d]) :
     v \in {Absent, Null, Num(1), Str("MALICIOUS")},
     rs \in {Absent, Null, Num(0), Num(30), Num(31), Num(70), Num(71),
             Str(""), Str(" 30 "), Str("85"), Str("high"), Str("Infinity"),
             Bool(TRUE), Arr(<<Num(71)>>), Obj(<<>>)},
     c \in {Absent, Num(3), Str(""), Str("High")},
     m \in {Absent, Num(5), Str("7"), Str("many")},
     te \in {Absent, Num(70), Str("n/a")},
     d \in {Absent, Null, Str("none"), Detections(2)}}

VTInputs ==
  VTObjects \cup {Undef, Null, Num(0), Num(85), Str("MALICIOUS"), Bool(TRUE),
                  Arr(<<>>), Arr(<<Num(85)>>)}

InitVT ==
  /\ raw \in VTInputs
  /\ normalized = Undef
  /\ result = Undef
  /\ again = Undef
  /\ error = ""
  /\ now = ClockStart
  /\ readAt = <<>>
  /\ storage = Null
  /\ saved = TRUE
  /\ loading = FALSE
  /\ history = Arr(<<>>)
  /\ url = ""
  /\ pc = "vt"

\* parseVTResult(vtRaw) (src/unnamed/part_003 line 216)
ParseVT ==
  /\ pc = "vt"
  /\ result' = parseVTResult(raw)
  /\ pc' = "vtParsed"
  /\ UNCHANGED <<raw, normalized, again, error, now, readAt, storage, saved, loading, history, url>>

SpecVT == InitVT /\ [][ParseVT]_vars

\* C15: parseVTResult returns, for every input, a record of verdict (the
\* source's if a string, else UNKNOWN), risk_score, malicious_count and
\* total_engines (the number the source field converts to, 0 when that is
\* not finite), confidence (the source's if a string, else High above 70,
\* Medium above 30, else Low), detections (the source's if a sequence, else
\* empty) and count 1; a non-object input gives UNKNOWN, zeros, Low, no
\* detections and count 1
C15_ParseVTResult ==
  pc = "vtParsed" =>
    LET isObj == raw.t \in {"object", "array"}
        src(k) == IF raw.t = "object" /\ k \in DOMAIN raw.v THEN raw.v[k] ELSE Undef
        num(k) == IF ToNumber(src(k)).t = "number" THEN ToNumber(src(k)) ELSE Num(0)
        r == result.v
    IN  /\ result.t = "object"
        /\ DOMAIN r = {"verdict", "risk_score", "confidence", "malicious_count",
                       "total_engines", "detections", "count"}
        /\ r.verdict = IF src("verdict").t = "string" THEN src("verdict")
                       ELSE Str("UNKNOWN")
        /\ \A k \in {"risk_score", "malicious_count", "total_engines"} :
             /\ r[k] = num(k)
             /\ r[k].t = "number"
             /\ src(k).t = "number" => r[k] = src(k)
             /\ src(k) \in {Undef, Str("high"), Str("many"), Str("n/a"),
                            Str("Infinity"), Obj(<<>>)} => r[k] = Num(0)
        /\ r.confidence =
             IF src("confidence").t = "string" THEN src("confidence")
             ELSE IF r.risk_score.v > 70 THEN Str("High")
             ELSE IF r.risk_score.v > 30 THEN Str("Medium")
             ELSE Str("Low")
        /\ r.detections = IF src("detections").t = "array" THEN src("detections")
                          ELSE Arr(<<>>)
        /\ r.count = Num(1)
        /\ ~isObj =>
             result = Obj([verdict |-> Str("UNKNOWN"), risk_score |-> Num(0),
                           confidence |-> Str("Low"), malicious_count |-> Num(0),
                           total_engines |-> Num(0), detections |-> Arr(<<>>),
                           count |-> Num(1)])

C15_Witness ==
  /\ pc = "vtParsed"
  /\ raw = Obj([risk_score |-> Num(70), malicious_count |-> Str("7"),
                total_engines |-> Str("n/a"), detections |-> Str("none")])
  /\ result = Obj([verdict |-> Str("UNKNOWN"), risk_score |-> Num(70),
                   confidence |-> Str("Medium"), malicious_count |-> Num(7),
                   total_engines |-> Num(0), detections |-> Arr(<<>>),
                   count |-> Num(1)])

(***************************************************************************)
(* The history store (src/n8nClient.js lines 98-185) over localStorage.     *)
(***************************************************************************)
MAX_HISTORY_ITEMS == 10

\* JSON.parse(JSON.stringify(v)): a property holding undefined is left out,
\* an element holding undefined becomes null
RECURSIVE Json(_)
Json(v) ==
  CASE v.t = "array" ->
         Arr([i \in 1..Len(v.v) |->
                IF v.v[i].t = "undefined" THEN Null ELSE Json(v.v[i])])
    [] v.t = "object" ->
         Obj([k \in {p \in DOMAIN v.v : v.v[p].t # "undefined"} |-> Json(v.v[k])])
    [] OTHER -> v

\* loadHistory (lines 105-116)
loadHistory ==
  IF ~Truthy(storage) THEN Arr(<<>>)
  ELSE IF IsArray(storage) THEN storage
  ELSE Arr(<<>>)

\* history.slice(0, MAX_HISTORY_ITEMS)
trimmed(items) ==
  Arr(SubSeq(items.v, 1,
             IF Len(items.v) < MAX_HISTORY_ITEMS THEN Len(items.v)
             ELSE MAX_HISTORY_ITEMS))

\* saveHistory that stores the list untrimmed
saveHistory_Untrimmed(items, written) ==
  IF ~IsArray(items) THEN storage' = storage /\ saved' = FALSE
  ELSE IF written THEN storage' = Json(items) /\ saved' = TRUE
  ELSE storage' = storage /\ saved' = FALSE

\* saveHistory (lines 123-138); `written` tells whether localStorage.setItem
\* stored the text or threw (the quota is exceeded, storage is disabled)
saveHistory(items, written) ==
  IF ~IsArray(items) THEN storage' = storage /\ saved' = FALSE
  ELSE IF written THEN storage' = Json(trimmed(items)) /\ saved' = TRUE
  ELSE storage' = storage /\ saved' = FALSE

\* new Date().toISOString() at reading t, written as the reading's numeral
toISOString(t) == Str(ToString(t))

\* { url, when: new Date().toISOString(), result } (lines 148-152)
newItem(scanned, scan, t) ==
  Obj([url |-> scanned, when |-> toISOString(t), result |-> scan])

Urls == {Str("http://a.test/")}

ScanResults == {Arr(<<BareCategory>>)}

\* what saveHistory is handed when called on its own
SaveInputs ==
  {Null, Arr(<<>>),
   Arr([i \in 1..(MAX_HISTORY_ITEMS + 1) |->
          newItem(Str("http://b.test/"), Undef, ClockStart)])}

InitHistory ==
  /\ raw = Undef
  /\ normalized = Undef
  /\ result = Null
  /\ again = Undef
  /\ error = ""
  /\ now = ClockStart
  /\ readAt = <<>>
  /\ storage = Null
  /\ saved = TRUE
  /\ loading = FALSE
  /\ history = Arr(<<>>)
  /\ url = ""
  /\ pc = "history"

\* addToHistory (lines 146-157) and setHistory(updatedHistory)
\* (src/unnamed/part_003 lines 126-127)
AddToHistory ==
  \E scanned \in Urls, scan \in ScanResults, written \in BOOLEAN :
    /\ saveHistory(Arr(<<newItem(scanned, scan, now)>> \o loadHistory.v), written)
    /\ history' = Arr(<<newItem(scanned, scan, now)>> \o loadHistory.v)
    /\ pc' = "added"
    /\ UNCHANGED <<raw, normalized, result, again, error, now, readAt, loading, url>>

\* the indexes removeHistoryItem is called with
RemoveIndexes == {-1, 0, 1, MAX_HISTORY_ITEMS - 1, MAX_HISTORY_ITEMS}

\* the list with the element at zero-based index spliced out
spliced(items, index) ==
  Arr([i \in 1..(Len(items.v) - 1) |->
         IF i <= index THEN items.v[i] ELSE items.v[i + 1]])

\* removeHistoryItem (lines 178-185) and setHistory(updatedHistory)
\* (src/unnamed/part_003 lines 152-153)
RemoveHistoryItem ==
  \E index \in RemoveIndexes :
    /\ IF index >= 0 /\ index < Len(loadHistory.v)
       THEN /\ \E written \in BOOLEAN :
                 saveHistory(spliced(loadHistory, index), written)
            /\ history' = spliced(loadHistory, index)
       ELSE /\ UNCHANGED <<storage, saved>>
            /\ history' = loadHistory
    /\ pc' = "removed"
    /\ UNCHANGED <<raw, normalized, result, again, error, now, readAt, loading, url>>

\* clearHistory (lines 163-171) and setHistory([])
\* (src/unnamed/part_003 lines 146-147)
ClearHistory ==
  /\ storage' = Null
  /\ history' = Arr(<<>>)
  /\ pc' = "cleared"
  /\ UNCHANGED <<raw, normalized, result, again, error, now, readAt, saved, loading, url>>

\* saveHistory called on its own
SaveHistory ==
  \E items \in SaveInputs, written \in BOOLEAN :
    /\ saveHistory(items, written)
    /\ pc' = "saved"
    /\ UNCHANGED <<raw, normalized, result, again, error, now, readAt, loading, history, url>>

NextHistory ==
  Tick \/ AddToHistory \/ RemoveHistoryItem \/ ClearHistory \/ SaveHistory

SpecHistory == InitHistory /\ [][NextHistory]_vars

\* the stored history is the record of this call followed by the records
\* stored before, in their order, cut after the tenth
AddedFirst ==
  /\ IsArray(storage')
  /\ Len(storage'.v) =
       IF Len(loadHistory.v) < MAX_HISTORY_ITEMS THEN Len(loadHistory.v) + 1
       ELSE MAX_HISTORY_ITEMS
  /\ storage'.v[1].v.when = toISOString(now)
  /\ storage'.v[1].v.url \in Urls
  /\ \A i \in 2..Len(storage'.v) : storage'.v[i] = loadHistory.v[i - 1]

C18_SyntheticCount ==
  /\ pc = "normalized"
  /\ raw.t = "object"
  /\ ~IsArray(Get(raw, "categories"))
  /\ ~resultsAreCategories(raw)
  /\ looksLikeCategory(raw)
  => LET cat == normalized.v[1].v
     IN  /\ Len(normalized.v) = 1
         /\ cat.results =
              IF IsArray(Get(raw, "results")) THEN MapResults(Get(raw, "results"))
              ELSE IF IsArray(Get(raw, "items")) THEN MapResults(Get(raw, "items"))
              ELSE Arr(<<>>)
         /\ cat.count =
              IF Truthy(Get(raw, "count")) THEN Get(raw, "count")
              ELSE IF Len(cat.results.v) > 0 THEN Num(Len(cat.results.v))
              ELSE Num(1)

\* C19: the verdict decideVerdict computes depends on riskScore and
\* maliciousCount alone: MALICIOUS iff riskScore >= 70 or maliciousCount >= 10,
\* else SUSPICIOUS iff riskScore >= 40 or maliciousCount >= 3, else CLEAN,
\* with riskScore the percentage of step 4 and not the output's risk_score
\* (shown on categories whose own verdict cannot outrank the computed one)
C19_ComputedVerdict ==
  pc = "decided" =>
    \A i \in 1..Len(result.v) :
      LET c == normalized.v[i]
          o == result.v[i].v
          d == Get(c, "detections")
          mc == o.malicious_count.v
          te == IF Defined(c, "total_engines") THEN Get(c, "total_engines").v
                ELSE IF IsArray(d) /\ Len(d.v) > 0 THEN 70 ELSE 0
          rs == IF te > 0 THEN RoundPercent(mc, te)
                ELSE IF Truthy(Get(c, "risk_score")) THEN Get(c, "risk_score").v
                ELSE 0
      IN  Get(c, "verdict") \in {Undef, Str("UNKNOWN")} =>
            /\ o.verdict \in {Str("MALICIOUS"), Str("SUSPICIOUS"), Str("CLEAN")}
            /\ o.verdict = Str("MALICIOUS") <=> (rs >= 70 \/ mc >= 10)
            /\ o.verdict = Str("SUSPICIOUS") <=>
                 (~(rs >= 70 \/ mc >= 10) /\ (rs >= 40 \/ mc >= 3))

\* a category that came with risk_score 100 is decided CLEAN on its counts,
\* and still carries risk_score 100
C19_Witness ==
  /\ pc = "decided"
  /\ normalized.v[1] = Obj([risk_score |-> Num(100), malicious_count |-> Num(1),
                            total_engines |-> Num(60)])
  /\ result.v[1].v.verdict = Str("CLEAN")
  /\ result.v[1].v.risk_score = Num(100)

\* C20: without malicious_count a category's count is the number of its
\* results with risk_score above 50 plus the number of its detections, and
\* without total_engines its engines are 70 when it has detections and none
\* otherwise; an explicit malicious_count or total_engines stands as given,
\* whatever the results and detections are, and the output malicious_count
\* is that count
C20_DerivedCounts ==
  pc = "decided" =>
    \A i \in 1..Len(result.v) :
      LET c == normalized.v[i]
          o == result.v[i].v
          d == Get(c, "detections")
          r == Get(c, "results")
          risky == IF IsArray(r)
                   THEN {j \in 1..Len(r.v) :
                           /\ Get(r.v[j], "risk_score").t = "number"
                           /\ Get(r.v[j], "risk_score").v > 50}
                   ELSE {}
          found == IF IsArray(d) THEN Len(d.v) ELSE 0
          te == IF Defined(c, "total_engines") THEN Get(c, "total_engines").v
                ELSE IF found > 0 THEN 70 ELSE 0
      IN  /\ o.malicious_count =
               IF Defined(c, "malicious_count") THEN Get(c, "malicious_count")
               ELSE Num(Cardinality(risky) + found)
          /\ o.total_engines = IF te = 0 THEN Num(1) ELSE Num(te)
          /\ (~Defined(c, "risk_score") /\ te > 0) =>
               o.risk_score = Num(RoundPercent(o.malicious_count.v, te))

\* an explicit count that one risky result and ten detections do not change,
\* beside engines derived from those detections
C20_Witness ==
  /\ pc = "decided"
  /\ normalized.v[1] = Obj([malicious_count |-> Num(2),
                            results |-> Arr(<<RiskyResult>>),
                            detections |-> Detections(MaxDetections)])
  /\ result.v[1].v.malicious_count = Num(2)
  /\ result.v[1].v.total_engines = Num(70)

\* C21: favicon_src and screenshot_src are each the first direct URL alias
\* that is set, else the nested capture URL (favicons[0].url,
\* screenshot.image_url), else an embedded base64 payload as a
\* data:image/png;base64, reference, else null
C21_SourcePrecedence ==
  pc = "resultNormalized" /\ raw.t = "object" =>
    LET directFavicon ==
          Or(Get(raw, "favicon_url"), Or(Get(raw, "favicon"),
          Or(Get(raw, "faviconUrl"), Get(raw, "favicon_image_url"))))
        nestedFavicon == OptGet(OptGet(Get(raw, "favicons"), "0"), "url")
        faviconPayloads ==
          {Get(raw, k) : k \in {"favicon_base64", "faviconBase64",
                                "favicon_data", "faviconData"}}
        directShot == Or(Get(raw, "screenshot_url"), Get(raw, "screenshotUrl"))
        nestedShot == OptGet(Get(raw, "screenshot"), "image_url")
        shotPayloads ==
          {OptGet(Get(raw, "screenshot"), "screenshot_base64"),
           Get(raw, "screenshot_base64"), Get(raw, "screenshotBase64")}
        src(direct, nested, payloads, out) ==
          IF Truthy(direct) THEN out = direct
          ELSE IF Truthy(nested) THEN out = nested
          ELSE IF \E b \in payloads : Truthy(b)
               THEN \E b \in payloads : Truthy(b) /\ out = DataRef(b)
          ELSE out = Null
    IN  /\ src(directFavicon, nestedFavicon, faviconPayloads,
               result.v.favicon_src)
        /\ src(directShot, nestedShot, shotPayloads, result.v.screenshot_src)

\* C22: each canonical WHOIS field takes the value of the first alias key, in
\* the alias order, that is defined on the record, falsy or not; a later
\* alias counts only when every earlier one is undefined (read off the parsed
\* record's domain, registrar, organization, country, dates and name servers)
C22_FirstDefinedWins ==
  pc = "parsed" /\ result # Null =>
    LET firstDefined(keys) ==
          IF \E i \in 1..Len(keys) : Defined(raw, keys[i])
          THEN Get(raw, keys[CHOOSE i \in 1..Len(keys) :
                              /\ Defined(raw, keys[i])
                              /\ \A j \in 1..(i - 1) : ~Defined(raw, keys[j])])
          ELSE Undef
        r == result.v
    IN  /\ r.domain =
             Or(firstDefined(<<"domain_name", "domain", "domainName">>), Null)
        /\ r.registrar =
             Or(firstDefined(<<"registrar", "sponsoring_registrar">>), Null)
        /\ r.registrant.v.organization =
             Or(firstDefined(<<"org", "organization", "registrant_organization",
                               "registrant_org">>), Null)
        /\ r.registrant.v.country =
             Or(firstDefined(<<"country", "registrant_country">>), Null)
        /\ r.dates.v.created =
             formatWhoisDate(firstDefined(<<"creation_date", "created",
                                            "creationDate", "created_date">>))
        /\ r.dates.v.expires =
             formatWhoisDate(firstDefined(<<"expiration_date", "expires",
                                            "expirationDate", "expiry_date">>))
        /\ r.nameServers =
             formatNameServers(firstDefined(<<"name_servers", "nameServers",
                                              "nserver">>))

\* C23: every category decideVerdict returns has verdict CLEAN, SUSPICIOUS or
\* MALICIOUS; an input verdict that is none of the three is replaced by the
\* computed verdict
C23_VerdictInEnum ==
  pc = "decided" /\ IsArray(normalized) =>
    \A i \in 1..Len(result.v) :
      LET c == normalized.v[i]
          o == result.v[i].v
          inEnum(v) == v \in {Str("CLEAN"), Str("SUSPICIOUS"), Str("MALICIOUS")}
      IN  /\ inEnum(o.verdict)
          /\ ~inEnum(Get(c, "verdict")) =>
               o.verdict = Str(classify(riskScore(c), o.malicious_count.v))

\* C24: a category-like payload with detections and neither malicious_count
\* nor total_engines comes out of normalization and decision with
\* malicious_count = its detections plus its results with risk_score above
\* 50, and total_engines = 70
C24_PipelineCounts ==
  /\ pc = "decided"
  /\ raw.t = "object"
  /\ ~IsArray(Get(raw, "categories"))
  /\ ~resultsAreCategories(raw)
  /\ looksLikeCategory(raw)
  /\ IsArray(Get(raw, "detections"))
  /\ Len(Get(raw, "detections").v) > 0
  /\ ~Defined(raw, "malicious_count")
  /\ ~Defined(raw, "total_engines")
  => LET o == result.v[1].v
         r == Get(normalized.v[1], "results").v
         risky == {j \in 1..Len(r) :
                     /\ Get(r[j], "risk_score").t = "number"
                     /\ Get(r[j], "risk_score").v > 50}
     IN  /\ o.malicious_count =
              Num(Len(Get(raw, "detections").v) + Cardinality(risky))
         /\ o.total_engines = Num(70)

\* C25: the sequence addToHistory returns (and the scanner shows) is the
\* history loadHistory returns right after it: same records, order and
\* length, also when 10 records were stored before (stated for the calls
\* whose write to storage succeeded)
C25_ReturnedIsStored ==
  pc = "added" /\ saved => history = loadHistory

(***************************************************************************)
(* handleScan (src/unnamed/part_003 lines 82-139): the part before the      *)
(* await, and the continuation once the fetch has resolved or rejected.     *)
(***************************************************************************)
UrlInputs ==
  {"", "example.com", "ftp://a.test/", "http://a.test/", " https://b.test/ "}

\* value.trim()
trimUrl(value) == IF value = " https://b.test/ " THEN "https://b.test/" ELSE value

\* /^https?:\/\//i.test(v)
hasHttpPrefix(v) == v \in {"http://a.test/", "https://b.test/"}

\* isValidUrl (lines 9-16): new URL(value.trim()) parses, with protocol http:
\* or https:
isValidUrl(value) == trimUrl(value) \in {"http://a.test/", "https://b.test/"}

\* ensureProtocol (lines 19-24)
ensureProtocol(value) ==
  IF value = "" THEN value
  ELSE IF hasHttpPrefix(trimUrl(value)) THEN trimUrl(value)
  ELSE "http://" \o trimUrl(value)

\* what the webhook answers with
ScanPayloads ==
  {Null, Arr(<<Null>>), Arr(<<SampleCategory>>),
   Obj([verdict |-> Str("X"), detections |-> Detections(2)])}

InitScan ==
  /\ raw = Undef
  /\ normalized = Undef
  /\ result = Null
  /\ again = Undef
  /\ error = ""
  /\ now = ClockStart
  /\ readAt = <<>>
  /\ storage = Null
  /\ saved = TRUE
  /\ loading = FALSE
  /\ history = Arr(<<>>)
  /\ url = ""
  /\ pc = "idle"

\* lines 82-101: the form is submitted with `value` typed in; the inputs and
\* the button are disabled while loading (lines 179-181)
ScanSubmit ==
  \E value \in UrlInputs :
    /\ ~loading
    /\ Len(history.v) < MaxScans
    /\ result' = Null
    /\ IF ~isValidUrl(value)
       THEN /\ error' = "Please enter a valid http/https URL."
            /\ url' = value
            /\ pc' = "rejected"
            /\ UNCHANGED loading
       ELSE IF ~isValidUrl(ensureProtocol(value))
       THEN /\ error' = "Please enter a valid http/https URL."
            /\ url' = ensureProtocol(value)
            /\ pc' = "rejected"
            /\ UNCHANGED loading
       ELSE /\ error' = ""
            /\ url' = ensureProtocol(value)
            /\ loading' = TRUE
            /\ pc' = "fetching"
    /\ UNCHANGED <<raw, normalized, again, now, readAt, storage, saved, history>>

\* ScanReject without the finally block
ScanReject_NoFinally ==
  /\ pc = "fetching"
  /\ error' = "Scan request failed"
  /\ pc' = "failed"
  /\ UNCHANGED <<raw, normalized, result, again, now, readAt, storage, saved,
                 loading, history, url>>

\* fetchScan throws (n8nClient.js lines 3, 11-14, or fetch rejects): lines
\* 130-137
ScanReject ==
  /\ pc = "fetching"
  /\ error' = "Scan request failed"
  /\ loading' = FALSE
  /\ pc' = "failed"
  /\ UNCHANGED <<raw, normalized, result, again, now, readAt, storage, saved,
                 history, url>>

\* fetchScan returns data: lines 103-137
ScanResolve ==
  \E data \in ScanPayloads, written \in BOOLEAN :
    /\ pc = "fetching"
    /\ raw' = data
    /\ loading' = FALSE
    /\ IF normalizeScanResponse(data) = TypeError
          \/ decideVerdict(normalizeScanResponse(data)) = TypeError
       THEN /\ error' = "TypeError"
            /\ pc' = "failed"
            /\ UNCHANGED <<normalized, result, storage, saved, history>>
       ELSE /\ normalized' = normalizeScanResponse(data)
            /\ result' = decideVerdict(normalizeScanResponse(data))
            /\ saveHistory(Arr(<<newItem(Str(url), result', now)>>
                               \o loadHistory.v), written)
            /\ history' = Arr(<<newItem(Str(url), result', now)>> \o loadHistory.v)
            /\ pc' = "done"
            /\ UNCHANGED error
    /\ UNCHANGED <<again, now, readAt, url>>

NextScan == ScanSubmit \/ ScanReject \/ ScanResolve

SpecScan == InitScan /\ [][NextScan]_vars

\* the awaited fetch settles
SpecScanFair == SpecScan /\ WF_vars(ScanReject \/ ScanResolve)

====
